---- MODULE Spec2Model ----
(***************************************************************************)
(* Gesture-to-action pipeline of Machine-Learning-Jutsu.                   *)
(*                                                                         *)
(*   ScreenController   (src/screen_controller.py)  the action dispatcher  *)
(*   GestureRecognizer  (src/gesture_recognition.py) classifier+stabilizer *)
(*   HandGestureController (src/main.py)            the frame loop         *)
(*                                                                         *)
(* Units.  Wall-clock times are integers counting tenths of a second, so   *)
(* click_cooldown = 0.3 s is 3 and scroll_cooldown = 0.1 s is 1.           *)
(* sensitivity is an integer counting tenths (1.0 is 10, 3.0 is 30).       *)
(* A normalized position is a pair of exact fractions xn/xd, yn/yd.        *)
(* Python's int() truncates toward zero: Trunc.  A Euclidean distance is   *)
(* carried as its square (an integer), and compared with squared           *)
(* thresholds.                                                             *)
(***************************************************************************)
EXTENDS Integers, Sequences, FiniteSets, TLC

VARIABLES
    \* ---- ScreenController fields
    sensitivity,        \* tenths
    is_mouse_pressed,
    last_mouse_pos,     \* <<x, y>> screen pixels
    last_click_time,
    last_scroll_time,
    movement_history,   \* deque(maxlen=3) of <<x, y>>
    \* ---- GestureRecognizer fields
    gesture_history,    \* deque(maxlen=smoothing_frames) of raw labels
    position_history,   \* deque(maxlen=smoothing_frames) of index-tip pixels <<x, y>>;
                        \* the normalized position is x/frame_width, y/frame_height
    previous_gesture,   \* the label is_gesture_held saw last
    gesture_start_time, \* when is_gesture_held saw the label change
    \* ---- HandGestureController fields and the position of run()
    control_enabled,
    phase,              \* "init" | "running" | "cleanup" | "exited" | "returned"
    exit_cause,         \* why the loop ended
    cleanup_log,        \* the steps of _cleanup that were started, in order
    \* ---- environment and observation
    now,                \* the last value time.time() returned
    out,                \* the OS commands the last operation issued, in order
    raised,             \* "no" | "caught" | "propagated": the last operation's exception
    unmatched,          \* ButtonDown commands issued minus ButtonUp commands issued
    click_times,        \* dispatch times of the last two Click commands, oldest first
    was_pressed,        \* is_mouse_pressed when the last operation began
    last_data,          \* the gesture_data of the last dispatch (the empty one otherwise)
    \* ---- observation of the recognizer when it is driven directly
    last_hand,          \* the hand the last call of the recognizer was given
    result,             \* what the last call of the recognizer returned
    fresh,              \* a second GestureRecognizer, constructed anew at every
                        \* reset_state and given the same observations
    held,               \* the last call of is_gesture_held: its arguments and
                        \* what it returned
    demo,               \* the shadow-clone demo: the locals of its main() and the
                        \* fields of its ShadowCloneEffect, with what the last
                        \* frame read and did
    observed,           \* the hands with landmarks that the recorded observations
                        \* gave the recognizer since its construction or last reset
    last_op             \* the last operation: the gesture dispatched, or
                        \* "init", "emergency_stop", "set_sensitivity"

\* ------------------------------------------------------------------------
\* Program constants
\* ------------------------------------------------------------------------
click_cooldown == 3
scroll_cooldown == 1
movement_threshold == 5
movement_history_maxlen == 3
smoothing_frames == 5
frame_width == 640
frame_height == 480
cooldown_duration == 40
effect_duration == 30

\* ------------------------------------------------------------------------
\* Bounds of the model
\* ------------------------------------------------------------------------
screen_width == 12
screen_height == 8
StartTime == 4
MaxTime == 8
MaxObserved == 7
MaxDemoTime == 150

\* ------------------------------------------------------------------------
\* Arithmetic helpers
\* ------------------------------------------------------------------------
Abs(n) == IF n < 0 THEN -n ELSE n

\* int(n / d) for d > 0: truncation toward zero
Trunc(n, d) == IF n >= 0 THEN n \div d ELSE -((-n) \div d)

Max2(a, b) == IF a >= b THEN a ELSE b
Min2(a, b) == IF a <= b THEN a ELSE b

\* a faulty clamp: the upper limit is the screen size itself
ClampToScreenInclusive(v, limit) == Max2(0, Min2(v, limit))

\* max(0, min(v, limit - 1))
ClampToScreen(v, limit) == Max2(0, Min2(v, limit - 1))

RECURSIVE SumX(_), SumY(_)
SumX(s) == IF s = <<>> THEN 0 ELSE Head(s)[1] + SumX(Tail(s))
SumY(s) == IF s = <<>> THEN 0 ELSE Head(s)[2] + SumY(Tail(s))

\* a faulty deque: when full, the newest element is replaced
DequeAppend_evict_newest(s, e, n) ==
    IF Len(s) >= n THEN Append(SubSeq(s, 1, Len(s) - 1), e) ELSE Append(s, e)

\* deque(maxlen=n).append(e)
DequeAppend(s, e, n) == IF Len(s) >= n THEN Append(Tail(s), e) ELSE Append(s, e)

\* ------------------------------------------------------------------------
\* OS commands (pyautogui calls)
\* ------------------------------------------------------------------------
Cmd(c, a, b) == [cmd |-> c, a |-> a, b |-> b]
MoveTo(p)    == Cmd("MoveTo", p[1], p[2])
DragTo(x, y) == Cmd("DragTo", x, y)
ButtonDown   == Cmd("ButtonDown", 0, 0)
ButtonUp     == Cmd("ButtonUp", 0, 0)
Click        == Cmd("Click", 0, 0)
Scroll(n)    == Cmd("Scroll", n, 0)
HotkeyPlus   == Cmd("Hotkey", 1, 0)
HotkeyMinus  == Cmd("Hotkey", -1, 0)

RECURSIVE Count(_, _)
Count(s, c) == IF s = <<>> THEN 0
               ELSE (IF Head(s).cmd = c THEN 1 ELSE 0) + Count(Tail(s), c)

\* ------------------------------------------------------------------------
\* Execution context of one operation: the controller's mutable fields, the
\* commands issued so far, and the exception state.  `fail` is the index of
\* the OS call that raises in this operation (0: none does).
\* ------------------------------------------------------------------------
Ctx(fail) ==
    [is_mouse_pressed |-> is_mouse_pressed,
     last_mouse_pos   |-> last_mouse_pos,
     last_click_time  |-> last_click_time,
     last_scroll_time |-> last_scroll_time,
     movement_history |-> movement_history,
     out    |-> <<>>,
     calls  |-> 0,
     fail   |-> fail,
     raised |-> FALSE,      \* an exception is propagating
     caught |-> FALSE]      \* an exception ended in an except clause

\* the next operation of the same frame, with its own failing call
NextOp(c, fail) == [c EXCEPT !.calls = 0, !.fail = fail]

\* One pyautogui call: it raises (and issues nothing) or issues the command.
OsCall(c, command) ==
    IF c.raised THEN c
    ELSE IF c.calls + 1 = c.fail
         THEN [c EXCEPT !.calls = @ + 1, !.raised = TRUE]
         ELSE [c EXCEPT !.calls = @ + 1, !.out = Append(@, command)]

\* ------------------------------------------------------------------------
\* ScreenController
\* ------------------------------------------------------------------------
\* a faulty filter: the mean is rounded to the nearest integer
_smooth_movement_nearest(history) ==
    IF Len(history) = 0 THEN <<0, 0>>
    ELSE <<(2 * SumX(history) + Len(history)) \div (2 * Len(history)),
           (2 * SumY(history) + Len(history)) \div (2 * Len(history))>>

_smooth_movement(history) ==
    IF Len(history) = 0 THEN <<0, 0>>
    ELSE <<SumX(history) \div Len(history), SumY(history) \div Len(history)>>

\* a faulty dead zone: a move of exactly movement_threshold is suppressed
_movement_threshold_met_strict(new_pos, last_pos) ==
    LET dx == new_pos[1] - last_pos[1]
        dy == new_pos[2] - last_pos[2]
    IN  dx * dx + dy * dy > movement_threshold * movement_threshold

\* np.sqrt(dx**2 + dy**2) >= movement_threshold, on integers
_movement_threshold_met(new_pos, last_pos) ==
    LET dx == new_pos[1] - last_pos[1]
        dy == new_pos[2] - last_pos[2]
    IN  dx * dx + dy * dy >= movement_threshold * movement_threshold

\* _handle_pointing: the screen coordinates of a normalized position
PointingTarget(p) ==
    LET x0 == Trunc(p.xn * screen_width, p.xd)
        y0 == Trunc(p.yn * screen_height, p.yd)
        x1 == Trunc(x0 * sensitivity, 10)
        y1 == Trunc(y0 * sensitivity, 10)
    IN  <<ClampToScreen(x1, screen_width), ClampToScreen(y1, screen_height)>>

_handle_pointing(c, data) ==
    IF ~data.has_position THEN c
    ELSE
    LET c1 == [c EXCEPT !.movement_history =
                  DequeAppend(@, PointingTarget(data.position), movement_history_maxlen)]
        smooth_pos == _smooth_movement(c1.movement_history)
    IN  IF _movement_threshold_met(smooth_pos, c1.last_mouse_pos)
        THEN LET c2 == OsCall(c1, MoveTo(smooth_pos))
             IN  IF c2.raised THEN c2 ELSE [c2 EXCEPT !.last_mouse_pos = smooth_pos]
        ELSE c1

\* a faulty click: no cooldown check
_handle_click_no_cooldown(c, data, current_time) ==
    LET c1 == IF data.has_position THEN _handle_pointing(c, data) ELSE c
        c2 == OsCall(c1, Click)
    IN  IF c2.raised THEN c2 ELSE [c2 EXCEPT !.last_click_time = current_time]

\* a faulty click: last_click_time is stored before pyautogui.click() is called
_handle_click_time_first(c, data, current_time) ==
    IF current_time - c.last_click_time < click_cooldown THEN c
    ELSE
    LET c1 == IF data.has_position THEN _handle_pointing(c, data) ELSE c
        c2 == IF c1.raised THEN c1 ELSE [c1 EXCEPT !.last_click_time = current_time]
    IN  OsCall(c2, Click)

\* a faulty click: the pointer is moved before the cooldown check
_handle_click_move_first(c, data, current_time) ==
    LET c1 == IF data.has_position THEN _handle_pointing(c, data) ELSE c
    IN  IF c1.raised \/ current_time - c.last_click_time < click_cooldown THEN c1
        ELSE LET c2 == OsCall(c1, Click)
             IN  IF c2.raised THEN c2 ELSE [c2 EXCEPT !.last_click_time = current_time]

_handle_click(c, data, current_time) ==
    IF current_time - c.last_click_time < click_cooldown THEN c
    ELSE
    LET c1 == IF data.has_position THEN _handle_pointing(c, data) ELSE c
        c2 == OsCall(c1, Click)
    IN  IF c2.raised THEN c2 ELSE [c2 EXCEPT !.last_click_time = current_time]

\* _handle_drag: the screen coordinates of a normalized position
DragTarget(p) ==
    LET x0 == Trunc(p.xn * screen_width * sensitivity, p.xd * 10)
        y0 == Trunc(p.yn * screen_height * sensitivity, p.yd * 10)
    IN  <<ClampToScreen(x0, screen_width), ClampToScreen(y0, screen_height)>>

\* a faulty drag: the button is pressed on every drag frame
_handle_drag_always_down(c, data) ==
    IF ~data.has_position THEN c
    ELSE
    LET target == DragTarget(data.position)
        d  == OsCall(c, ButtonDown)
        c1 == IF d.raised THEN d ELSE [d EXCEPT !.is_mouse_pressed = TRUE]
    IN  OsCall(c1, DragTo(target[1], target[2]))

_handle_drag(c, data) ==
    IF ~data.has_position THEN c
    ELSE
    LET target == DragTarget(data.position)
        c1 == IF ~c.is_mouse_pressed
              THEN LET d == OsCall(c, ButtonDown)
                   IN  IF d.raised THEN d ELSE [d EXCEPT !.is_mouse_pressed = TRUE]
              ELSE c
    IN  OsCall(c1, DragTo(target[1], target[2]))

\* a faulty scroll: one position in movement_history is enough
_handle_scroll_one_position(c, data, current_time) ==
    IF current_time - c.last_scroll_time < scroll_cooldown THEN c
    ELSE IF ~data.has_position \/ Len(c.movement_history) < 1 THEN c
    ELSE
    LET p        == data.position
        prev_pos == c.movement_history[Len(c.movement_history)]
        dyn == p.yn * screen_height - prev_pos[2] * p.yd
        dyd == p.yd * screen_height
        scroll_amount == Trunc(5 * dyn, dyd)
    IN  IF 100 * Abs(dyn) > dyd /\ scroll_amount # 0
        THEN LET c1 == OsCall(c, Scroll(scroll_amount))
             IN  IF c1.raised THEN c1 ELSE [c1 EXCEPT !.last_scroll_time = current_time]
        ELSE c

_handle_scroll(c, data, current_time) ==
    IF current_time - c.last_scroll_time < scroll_cooldown THEN c
    ELSE IF ~data.has_position \/ Len(c.movement_history) < 2 THEN c
    ELSE
    LET p        == data.position
        prev_pos == c.movement_history[Len(c.movement_history)]
        \* dy = p.yn/p.yd - prev_pos[2]/screen_height = dyn / dyd
        dyn == p.yn * screen_height - prev_pos[2] * p.yd
        dyd == p.yd * screen_height
        scroll_amount == Trunc(5 * dyn, dyd)
    IN  IF 100 * Abs(dyn) > dyd /\ scroll_amount # 0
        THEN LET c1 == OsCall(c, Scroll(scroll_amount))
             IN  IF c1.raised THEN c1 ELSE [c1 EXCEPT !.last_scroll_time = current_time]
        ELSE c

\* a faulty release: the flag is cleared before pyautogui.mouseUp() is called
ReleaseIfPressedFlagFirst(c) ==
    IF c.is_mouse_pressed
    THEN OsCall([c EXCEPT !.is_mouse_pressed = FALSE], ButtonUp)
    ELSE c

\* if self.is_mouse_pressed: pyautogui.mouseUp(); self.is_mouse_pressed = False
ReleaseIfPressed(c) ==
    IF c.is_mouse_pressed
    THEN LET c1 == OsCall(c, ButtonUp)
         IN  IF c1.raised THEN c1 ELSE [c1 EXCEPT !.is_mouse_pressed = FALSE]
    ELSE c

_handle_stop(c) == ReleaseIfPressed(c)

\* a faulty fist handler: the button is not released
_handle_fist_keeps_button(c) == c

_handle_fist(c) == ReleaseIfPressed(c)

\* a faulty zoom handler: the timer is set only when a hotkey was sent
_handle_zoom_timer_on_hotkey(c, data, current_time) ==
    IF current_time - c.last_scroll_time < scroll_cooldown THEN c
    ELSE IF ~data.has_distance THEN c
    ELSE
    LET distance_sq == data.thumb_index_dist_sq
    IN  IF distance_sq > 60 * 60 \/ distance_sq < 30 * 30
        THEN LET c1 == OsCall(c, IF distance_sq > 60 * 60 THEN HotkeyPlus
                                 ELSE HotkeyMinus)
             IN  IF c1.raised THEN c1
                 ELSE [c1 EXCEPT !.last_scroll_time = current_time]
        ELSE c

\* a faulty zoom handler: a distance of exactly 60 zooms in
_handle_zoom_inclusive(c, data, current_time) ==
    IF current_time - c.last_scroll_time < scroll_cooldown THEN c
    ELSE IF ~data.has_distance THEN c
    ELSE
    LET distance_sq == data.thumb_index_dist_sq
        c1 == IF distance_sq >= 60 * 60 THEN OsCall(c, HotkeyPlus)
              ELSE IF distance_sq < 30 * 30 THEN OsCall(c, HotkeyMinus)
              ELSE c
    IN  IF c1.raised THEN c1 ELSE [c1 EXCEPT !.last_scroll_time = current_time]

_handle_zoom(c, data, current_time) ==
    IF current_time - c.last_scroll_time < scroll_cooldown THEN c
    ELSE IF ~data.has_distance THEN c
    ELSE
    LET distance_sq == data.thumb_index_dist_sq
        \* distance > 60, distance < 30 on the squared distance
        c1 == IF distance_sq > 60 * 60 THEN OsCall(c, HotkeyPlus)
              ELSE IF distance_sq < 30 * 30 THEN OsCall(c, HotkeyMinus)
              ELSE c
    IN  IF c1.raised THEN c1 ELSE [c1 EXCEPT !.last_scroll_time = current_time]

\* The body of the try block of execute_gesture_action
GestureBranch(c, gesture, data, current_time) ==
    CASE gesture = "pointing"  -> _handle_pointing(c, data)
      [] gesture = "click"     -> _handle_click(c, data, current_time)
      [] gesture = "drag"      -> _handle_drag(c, data)
      [] gesture = "scroll"    -> _handle_scroll(c, data, current_time)
      [] gesture = "open_palm" -> _handle_stop(c)
      [] gesture = "zoom"      -> _handle_zoom(c, data, current_time)
      [] gesture = "fist"      -> _handle_fist(c)
      [] OTHER                 -> ReleaseIfPressed(c)

\* except Exception as e: print(...)
ExceptException(c) == [c EXCEPT !.raised = FALSE, !.caught = c.raised]

execute_gesture_action(c, gesture, data, current_time) ==
    ExceptException(GestureBranch(c, gesture, data, current_time))

\* a faulty emergency stop: mouseUp is called but the flag is not cleared
emergency_stop_keeps_flag(c) ==
    IF c.is_mouse_pressed THEN OsCall(c, ButtonUp) ELSE c

\* emergency_stop has no try block: an exception of mouseUp leaves it
emergency_stop(c) == ReleaseIfPressed(c)

\* self.sensitivity = max(0.1, min(sensitivity, 3.0))
set_sensitivity(s) == Max2(1, Min2(s, 30))

\* ------------------------------------------------------------------------
\* GestureRecognizer
\* ------------------------------------------------------------------------
RECURSIVE SumSeq(_)
SumSeq(s) == IF s = <<>> THEN 0 ELSE Head(s) + SumSeq(Tail(s))

\* squared Euclidean distance of two pixel points
_calculate_distance_sq(p, q) ==
    (q[1] - p[1]) * (q[1] - p[1]) + (q[2] - p[2]) * (q[2] - p[2])

\* a faulty classifier: the peace test comes before the scroll test
_classify_gesture_peace_first(fingers, thumb_index_dist_sq, index_middle_dist_sq) ==
    LET extended_count == SumSeq(fingers)
    IN  IF fingers = <<0, 1, 0, 0, 0>> THEN "pointing"
        ELSE IF fingers[1] = 1 /\ fingers[2] = 1 /\ thumb_index_dist_sq < 40 * 40
             THEN "click"
        ELSE IF fingers[1] = 1 /\ fingers[2] = 1 /\ thumb_index_dist_sq < 30 * 30
             THEN "drag"
        ELSE IF fingers = <<0, 1, 1, 0, 0>> THEN "peace"
        ELSE IF extended_count >= 4 THEN "open_palm"
        ELSE IF fingers = <<0, 1, 1, 1, 0>> THEN "zoom"
        ELSE IF extended_count = 0 THEN "fist"
        ELSE "unknown"

\* a faulty classifier: the pointing test also asks for a far thumb
_classify_gesture_pointing_far(fingers, thumb_index_dist_sq, index_middle_dist_sq) ==
    LET extended_count == SumSeq(fingers)
    IN  IF fingers = <<0, 1, 0, 0, 0>> /\ thumb_index_dist_sq >= 40 * 40 THEN "pointing"
        ELSE IF fingers[1] = 1 /\ fingers[2] = 1 /\ thumb_index_dist_sq < 40 * 40
             THEN "click"
        ELSE IF fingers[1] = 1 /\ fingers[2] = 1 /\ thumb_index_dist_sq < 30 * 30
             THEN "drag"
        ELSE IF fingers = <<0, 1, 1, 0, 0>> THEN "scroll"
        ELSE IF extended_count >= 4 THEN "open_palm"
        ELSE IF fingers = <<0, 1, 1, 0, 0>> THEN "peace"
        ELSE IF fingers = <<0, 1, 1, 1, 0>> THEN "zoom"
        ELSE IF extended_count = 0 THEN "fist"
        ELSE "unknown"

\* a faulty classifier: the drag test comes before the click test
_classify_gesture_drag_first(fingers, thumb_index_dist_sq, index_middle_dist_sq) ==
    LET extended_count == SumSeq(fingers)
    IN  IF fingers = <<0, 1, 0, 0, 0>> THEN "pointing"
        ELSE IF fingers[1] = 1 /\ fingers[2] = 1 /\ thumb_index_dist_sq < 30 * 30
             THEN "drag"
        ELSE IF fingers[1] = 1 /\ fingers[2] = 1 /\ thumb_index_dist_sq < 40 * 40
             THEN "click"
        ELSE IF fingers = <<0, 1, 1, 0, 0>> THEN "scroll"
        ELSE IF extended_count >= 4 THEN "open_palm"
        ELSE IF fingers = <<0, 1, 1, 0, 0>> THEN "peace"
        ELSE IF fingers = <<0, 1, 1, 1, 0>> THEN "zoom"
        ELSE IF extended_count = 0 THEN "fist"
        ELSE "unknown"

\* a faulty classifier: the click and drag thresholds are exchanged
_classify_gesture_thresholds_swapped(fingers, thumb_index_dist_sq, index_middle_dist_sq) ==
    LET extended_count == SumSeq(fingers)
    IN  IF fingers = <<0, 1, 0, 0, 0>> THEN "pointing"
        ELSE IF fingers[1] = 1 /\ fingers[2] = 1 /\ thumb_index_dist_sq < 30 * 30
             THEN "click"
        ELSE IF fingers[1] = 1 /\ fingers[2] = 1 /\ thumb_index_dist_sq < 40 * 40
             THEN "drag"
        ELSE IF fingers = <<0, 1, 1, 0, 0>> THEN "scroll"
        ELSE IF extended_count >= 4 THEN "open_palm"
        ELSE IF fingers = <<0, 1, 1, 0, 0>> THEN "peace"
        ELSE IF fingers = <<0, 1, 1, 1, 0>> THEN "zoom"
        ELSE IF extended_count = 0 THEN "fist"
        ELSE "unknown"

_classify_gesture(fingers, thumb_index_dist_sq, index_middle_dist_sq) ==
    LET extended_count == SumSeq(fingers)
    IN  IF fingers = <<0, 1, 0, 0, 0>> THEN "pointing"
        ELSE IF fingers[1] = 1 /\ fingers[2] = 1 /\ thumb_index_dist_sq < 40 * 40
             THEN "click"
        ELSE IF fingers[1] = 1 /\ fingers[2] = 1 /\ thumb_index_dist_sq < 30 * 30
             THEN "drag"
        ELSE IF fingers = <<0, 1, 1, 0, 0>> THEN "scroll"
        ELSE IF extended_count >= 4 THEN "open_palm"
        ELSE IF fingers = <<0, 1, 1, 0, 0>> THEN "peace"
        ELSE IF fingers = <<0, 1, 1, 1, 0>> THEN "zoom"
        ELSE IF extended_count = 0 THEN "fist"
        ELSE "unknown"

\* the mean of the window, as exact fractions of the frame size
_smooth_position(positions) ==
    IF Len(positions) = 0 THEN [xn |-> 0, xd |-> 1, yn |-> 0, yd |-> 1]
    ELSE [xn |-> SumX(positions), xd |-> Len(positions) * frame_width,
          yn |-> SumY(positions), yd |-> Len(positions) * frame_height]

\* gesture_counts[g] after the counting loop
RECURSIVE gesture_counts(_, _)
gesture_counts(history, g) ==
    IF history = <<>> THEN 0
    ELSE (IF Head(history) = g THEN 1 ELSE 0) + gesture_counts(Tail(history), g)

\* a faulty choice: the oldest label of the window
OldestLabel(history) == history[1]

\* a faulty choice: of the labels with the highest count, the one that
\* entered the count last
LastMostCommon(history) ==
    LET n    == Len(history)
        cnt  == [i \in 1..n |-> gesture_counts(history, history[i])]
        first == {i \in 1..n : \A j \in 1..(i - 1) : history[j] # history[i]}
        best == CHOOSE i \in first :
                   /\ \A j \in first : cnt[j] <= cnt[i]
                   /\ \A j \in first : j > i => cnt[j] < cnt[i]
    IN  history[best]

\* a faulty choice: the newest label of the window
NewestLabel(history) == history[Len(history)]

\* max(gesture_counts, key=gesture_counts.get): a dict iterates in insertion
\* order, the order of first occurrence in the window, and max returns the
\* first maximal key
MostCommon(history) ==
    LET n    == Len(history)
        cnt  == [i \in 1..n |-> gesture_counts(history, history[i])]
        best == CHOOSE i \in 1..n :
                   /\ \A j \in 1..n : cnt[j] <= cnt[i]
                   /\ \A j \in 1..(i - 1) : cnt[j] < cnt[i]
    IN  history[best]

\* a faulty stabilizer: no consensus gate
_get_stable_gesture_no_gate(history) ==
    IF Len(history) = 0 THEN "none" ELSE MostCommon(history)

\* a faulty stabilizer: the gate asks for more than half of the window
_get_stable_gesture_strict_majority(history) ==
    IF Len(history) = 0 THEN "none"
    ELSE LET stable_gesture == MostCommon(history)
         IN  IF 2 * gesture_counts(history, stable_gesture) <= Len(history)
             THEN "none"
             ELSE stable_gesture

_get_stable_gesture(history) ==
    IF Len(history) = 0 THEN "none"
    ELSE LET stable_gesture == MostCommon(history)
         IN  IF gesture_counts(history, stable_gesture) < Len(history) \div 2
             THEN "none"
             ELSE stable_gesture

\* a faulty recognizer: a frame without landmarks is recorded as a none vote
RecognizeGestureOn_none_vote(hand, gesture_window, position_window) ==
    LET thumb_index_dist_sq  == _calculate_distance_sq(hand.thumb_tip, hand.index_tip)
        index_middle_dist_sq == _calculate_distance_sq(hand.index_tip, hand.middle_tip)
        positions == IF hand.landmarks
                     THEN DequeAppend(position_window, hand.index_tip, smoothing_frames)
                     ELSE position_window
        gesture   == IF hand.landmarks
                     THEN _classify_gesture(hand.fingers, thumb_index_dist_sq,
                                            index_middle_dist_sq)
                     ELSE "none"
        gestures  == DequeAppend(gesture_window, gesture, smoothing_frames)
    IN  [gesture |-> IF hand.landmarks THEN _get_stable_gesture(gestures) ELSE "none",
         data |-> IF hand.landmarks
                  THEN [has_position |-> TRUE, position |-> _smooth_position(positions),
                        has_distance |-> TRUE, thumb_index_dist_sq |-> thumb_index_dist_sq]
                  ELSE [has_position |-> FALSE,
                        position |-> [xn |-> 0, xd |-> 1, yn |-> 0, yd |-> 1],
                        has_distance |-> FALSE, thumb_index_dist_sq |-> 0],
         gesture_history |-> gestures,
         position_history |-> positions]

\* One observation.  hand: [found, landmarks, fingers, thumb_tip, index_tip,
\* middle_tip]; the result carries the recognizer's windows after the call.
\* recognize_gesture of a recognizer whose windows are gesture_window and
\* position_window
RecognizeGestureOn(hand, gesture_window, position_window) ==
    IF ~hand.landmarks
    THEN [gesture |-> "none",
          data |-> [has_position |-> FALSE,
                    position |-> [xn |-> 0, xd |-> 1, yn |-> 0, yd |-> 1],
                    has_distance |-> FALSE, thumb_index_dist_sq |-> 0],
          gesture_history |-> gesture_window,
          position_history |-> position_window]
    ELSE
    LET thumb_index_dist_sq  == _calculate_distance_sq(hand.thumb_tip, hand.index_tip)
        index_middle_dist_sq == _calculate_distance_sq(hand.index_tip, hand.middle_tip)
        positions == DequeAppend(position_window, hand.index_tip, smoothing_frames)
        gesture   == _classify_gesture(hand.fingers, thumb_index_dist_sq, index_middle_dist_sq)
        gestures  == DequeAppend(gesture_window, gesture, smoothing_frames)
    IN  [gesture |-> _get_stable_gesture(gestures),
         data |-> [has_position |-> TRUE, position |-> _smooth_position(positions),
                   has_distance |-> TRUE, thumb_index_dist_sq |-> thumb_index_dist_sq],
         gesture_history |-> gestures,
         position_history |-> positions]

recognize_gesture(hand) == RecognizeGestureOn(hand, gesture_history, position_history)

\* a faulty is_gesture_held: the duration has to be exceeded
is_gesture_held_strict(gesture, required_duration, current_time) ==
    IF gesture # previous_gesture
    THEN [previous_gesture |-> gesture, gesture_start_time |-> current_time,
          returned |-> FALSE]
    ELSE [previous_gesture |-> previous_gesture,
          gesture_start_time |-> gesture_start_time,
          returned |-> current_time - gesture_start_time > required_duration]

\* is_gesture_held; current_time is what time.time() returns in the call
is_gesture_held(gesture, required_duration, current_time) ==
    IF gesture # previous_gesture
    THEN [previous_gesture |-> gesture, gesture_start_time |-> current_time,
          returned |-> FALSE]
    ELSE [previous_gesture |-> previous_gesture,
          gesture_start_time |-> gesture_start_time,
          returned |-> current_time - gesture_start_time >= required_duration]

\* a faulty reset: position_history is not cleared
reset_state_keeps_positions ==
    [gesture_history |-> <<>>, position_history |-> position_history,
     previous_gesture |-> "none"]

\* reset_state: both windows are cleared and previous_gesture is "none";
\* gesture_start_time keeps its value
reset_state == [gesture_history |-> <<>>, position_history |-> <<>>,
                previous_gesture |-> "none"]

\* GestureRecognizer(): a new recognizer has empty windows
FreshRecognizer(after_reset) ==
    [gesture_history |-> <<>>, position_history |-> <<>>,
     result |-> "none", after_reset |-> after_reset]

\* ------------------------------------------------------------------------
\* The shadow-clone demo (shadow_clone_demo.py, shadow_clone_effect.py)
\* ------------------------------------------------------------------------
\* the state before the first frame; current_time counts from the start of
\* the program, the last four fields record what the last frame did
DemoInit ==
    [running |-> TRUE,
     current_time |-> 0,
     seal_detected_last_frame |-> FALSE,
     cooldown_time |-> 0,
     is_active |-> FALSE,
     activation_time |-> 0,
     seal_detected |-> FALSE,
     in_cooldown |-> FALSE,
     seal_shown |-> FALSE,
     activations |-> <<>>,
     frame_activations |-> 0]

\* a faulty test: the effect is ready again at the very end of the cooldown
CooldownOver_inclusive(current_time, cooldown_time) == current_time >= cooldown_time

\* current_time > cooldown_time
CooldownOver(current_time, cooldown_time) == current_time > cooldown_time

\* ShadowCloneEffect.activate at time t, and the cooldown it starts
Activate(d, t) ==
    [d EXCEPT !.is_active = TRUE,
              !.activation_time = t,
              !.cooldown_time = t + cooldown_duration,
              !.activations = DequeAppend(@, t, 2),
              !.frame_activations = @ + 1]

\* ShadowCloneEffect.update at time t
Update(d, t) ==
    IF d.is_active /\ t - d.activation_time > effect_duration
    THEN [d EXCEPT !.is_active = FALSE] ELSE d

\* the seal check of one frame: hands is "none", "other" or "seal", what
\* find_hands and detect_shadow_clone_seal see in it
SealCheck(d, current_time, hands) ==
    LET checked == hands # "none" /\ CooldownOver(current_time, d.cooldown_time)
        seal_detected == checked /\ hands = "seal"
        d1 == [d EXCEPT !.current_time = current_time,
                        !.frame_activations = 0,
                        !.seal_shown = (hands = "seal"),
                        !.in_cooldown = ~CooldownOver(current_time, d.cooldown_time),
                        !.seal_detected = seal_detected]
        d2 == IF seal_detected /\ ~d.seal_detected_last_frame
              THEN Activate(d1, current_time) ELSE d1
    IN  [d2 EXCEPT !.seal_detected_last_frame = seal_detected]

\* the key of one frame: ESC leaves the loop, SPACE activates by hand
HandleKey(d, current_time, key) ==
    IF key = "ESC" THEN [d EXCEPT !.running = FALSE]
    ELSE IF key = "SPACE" /\ CooldownOver(current_time, d.cooldown_time)
         THEN Activate(d, current_time)
         ELSE d

\* one iteration of the loop of main(); ret is what cap.read() reports
DemoIteration(d, ret, current_time, hands, key) ==
    IF ~ret THEN [d EXCEPT !.running = FALSE]
    ELSE HandleKey(Update(SealCheck(d, current_time, hands), current_time),
                   current_time, key)

\* ------------------------------------------------------------------------
\* Inputs
\* ------------------------------------------------------------------------
GestureLabels == {"none", "pointing", "click", "drag", "scroll", "zoom",
                  "peace", "open_palm", "fist", "unknown"}

Frac(xn, xd, yn, yd) == [xn |-> xn, xd |-> xd, yn |-> yn, yd |-> yd]

\* the gesture_data dictionary recognize_gesture builds, and the empty one
FullData(p, dsq) == [has_position |-> TRUE, position |-> p,
                     has_distance |-> TRUE, thumb_index_dist_sq |-> dsq]
EmptyData == [has_position |-> FALSE, position |-> Frac(0, 1, 0, 1),
              has_distance |-> FALSE, thumb_index_dist_sq |-> 0]

\* which OS call of an operation raises (0: none)
FailChoices == 0..2

\* Inputs of the button view (Spec): every gesture, with and without a
\* position (one position, one distance of 70 px), every failure; the clock
\* stands still or jumps to MaxTime.  The timing view (SpecTiming) takes the
\* gestures that read or hold the clock and the button at every clock reading.
ButtonData == {EmptyData, FullData(Frac(3, 2, 3, 2), 4900)}
ButtonSensitivities == {10, 40}

\* Inputs of the pointer view (SpecPointer): every gesture, an in-range and
\* an over-range position (1.5, -0.2), failure of the first OS call; the
\* controller is constructed with sensitivity 0.1, 1.0 or 3.0 and the clock
\* stands still.
PointerPositions == {Frac(1, 4, 1, 2), Frac(3, 2, -1, 5)}
PointerData == {FullData(p, 900) : p \in PointerPositions}
PointerSensitivities == {1, 10, 30}

\* Inputs of the scroll view (SpecScroll): pointing and scroll at three
\* heights of the frame (y = 0.125, 0.5 and 0.625), failure of the first OS
\* call, the clock standing still or advancing by 0.1 s
ScrollPositions == {Frac(1, 4, 1, 8), Frac(1, 4, 1, 2), Frac(1, 4, 5, 8)}
ScrollData == {FullData(p, 2500) : p \in ScrollPositions}

\* Inputs of the sensitivity view (SpecSensitivity): the constructor and
\* set_sensitivity are given -0.5, 1.0 or 2.0, and 4.0; pointing maps two
\* positions
ConstructorSensitivities == {-5, 10, 40}
SetterSensitivities == {-5, 20, 40}
SensitivityData == {FullData(Frac(1, 4, 1, 2), 900), FullData(Frac(3, 4, 1, 8), 900)}

\* Inputs of the shared-timer view (SpecSharedTimer): pointing, scroll and
\* zoom at two heights of the frame (y = 0.125 and 0.625) with a thumb-index
\* distance of 50 and 61 pixels
SharedTimerData ==
    {FullData(p, dsq) : p \in {Frac(1, 4, 1, 8), Frac(1, 4, 5, 8)},
                        dsq \in {50 * 50, 61 * 61}}

\* Inputs of the zoom view (SpecZoom): thumb-index distances of 29, 30, 50,
\* 60 and 61 pixels, and gesture data without a distance
ZoomDistancesSq == {29 * 29, 30 * 30, 50 * 50, 60 * 60, 61 * 61}
ZoomData == {FullData(Frac(1, 4, 1, 2), dsq) : dsq \in ZoomDistancesSq} \cup {EmptyData}

\* Inputs of the frame loop (SpecMain): what the hand tracker reports
NoHand == [found |-> FALSE, landmarks |-> FALSE, fingers |-> <<0, 0, 0, 0, 0>>,
           thumb_tip |-> <<0, 0>>, index_tip |-> <<0, 0>>, middle_tip |-> <<0, 0>>]
EmptyHand == [NoHand EXCEPT !.found = TRUE]
Hand(fingers) == [found |-> TRUE, landmarks |-> TRUE, fingers |-> fingers,
                  thumb_tip |-> <<130, 240>>, index_tip |-> <<160, 240>>,
                  middle_tip |-> <<160, 200>>]
MainFingers == {<<0, 1, 0, 0, 0>>, <<1, 1, 0, 0, 0>>}
MainHands == {NoHand, EmptyHand} \cup {Hand(f) : f \in MainFingers}

\* Inputs of the classifier view (SpecClassify): every finger-state vector; the
\* thumb tip at distance 0, 29, 30, 30, 39, 40, 40 and 41 px from the index
\* tip, the middle tip at 10 and 50 px
AllFingers == {<<a, b, c, d, e>> : a \in {0, 1}, b \in {0, 1}, c \in {0, 1},
                                   d \in {0, 1}, e \in {0, 1}}
ThumbOffsets == {<<0, 0>>, <<29, 0>>, <<18, 24>>, <<30, 0>>, <<39, 0>>,
                 <<24, 32>>, <<40, 0>>, <<41, 0>>}
MiddleOffsets == {<<0, 10>>, <<0, 50>>}
HandAt(fingers, index_tip, thumb_offset, middle_offset) ==
    [found |-> TRUE, landmarks |-> TRUE, fingers |-> fingers,
     index_tip |-> index_tip,
     thumb_tip |-> <<index_tip[1] - thumb_offset[1], index_tip[2] + thumb_offset[2]>>,
     middle_tip |-> <<index_tip[1] + middle_offset[1], index_tip[2] - middle_offset[2]>>]
ClassifyHands == {HandAt(f, <<160, 240>>, t, m) :
                     f \in AllFingers, t \in ThumbOffsets, m \in MiddleOffsets}

\* Inputs of the recognizer view (SpecRecognizer): five hands the classifier
\* labels pointing, click, scroll, zoom and fist, each with its own index
\* tip, and a frame without landmarks
RecognizerHands ==
    {HandAt(<<0, 1, 0, 0, 0>>, <<160, 240>>, <<30, 0>>, <<0, 50>>),
     HandAt(<<1, 1, 0, 0, 0>>, <<320, 240>>, <<30, 0>>, <<0, 50>>),
     HandAt(<<0, 1, 1, 0, 0>>, <<480, 120>>, <<30, 0>>, <<0, 50>>),
     HandAt(<<0, 1, 1, 1, 0>>, <<64, 48>>, <<30, 0>>, <<0, 50>>),
     HandAt(<<0, 0, 0, 0, 0>>, <<600, 400>>, <<30, 0>>, <<0, 50>>),
     EmptyHand}

\* Inputs of the window view (SpecWindow): three hands the classifier labels
\* pointing, click and scroll, each with its own index tip, and a frame
\* without landmarks
WindowHands ==
    {HandAt(<<0, 1, 0, 0, 0>>, <<160, 240>>, <<30, 0>>, <<0, 50>>),
     HandAt(<<1, 1, 0, 0, 0>>, <<320, 240>>, <<30, 0>>, <<0, 50>>),
     HandAt(<<0, 1, 1, 0, 0>>, <<480, 120>>, <<30, 0>>, <<0, 50>>),
     EmptyHand}

\* Inputs of the pipeline view (SpecPipeline): a pinch with the thumb 29 px
\* and 30 px from the index tip (below both thresholds, and below the click
\* threshold only), index and middle finger up, and no hand; the frame goes
\* on with no key, SPACE or r
PipelineHands ==
    {HandAt(<<1, 1, 0, 0, 0>>, <<160, 240>>, <<29, 0>>, <<0, 50>>),
     HandAt(<<1, 1, 0, 0, 0>>, <<160, 240>>, <<30, 0>>, <<0, 50>>),
     HandAt(<<0, 1, 1, 0, 0>>, <<160, 240>>, <<30, 0>>, <<0, 50>>),
     NoHand}
PipelineTails == {[kind |-> "key", key |-> k, fail |-> 0] : k \in {"none", "SPACE", "r"}}

\* Inputs of the hold view (SpecHeld): three labels, required durations of
\* 0, 0.2 and 0.5 s (the default), calls up to 0.2 s apart
HeldLabels == {"none", "pointing", "click"}
HeldDurations == {0, 2, 5}
HeldSteps == 0..2

\* Inputs of the gate view (SpecGate): no hand, a hand without landmarks and
\* four hands the classifier labels pointing, fist, open_palm and unknown
\* (four different labels in the window stabilize to none); the frame goes
\* on with no key, or with SPACE when there is no hand; the controller is also called directly with drag
GateHands ==
    {NoHand, EmptyHand,
     HandAt(<<0, 1, 0, 0, 0>>, <<160, 240>>, <<30, 0>>, <<0, 50>>),
     HandAt(<<0, 0, 0, 0, 0>>, <<160, 240>>, <<30, 0>>, <<0, 50>>),
     HandAt(<<1, 1, 1, 1, 1>>, <<160, 240>>, <<30, 0>>, <<0, 50>>),
     HandAt(<<0, 0, 0, 0, 1>>, <<160, 240>>, <<30, 0>>, <<0, 50>>)}
NoKey == [kind |-> "key", key |-> "none", fail |-> 0]
SpaceKey == [kind |-> "key", key |-> "SPACE", fail |-> 0]
GateData == FullData(Frac(1, 4, 1, 2), 900)

\* Inputs of the demo view (SpecDemo): frames 1, 2 or 5 s apart, with no
\* hand, hands that do not form the seal, or the seal; no key, SPACE or ESC
DemoSteps == {10, 20, 50}
DemoHands == {"none", "other", "seal"}
DemoKeys == {"none", "SPACE", "ESC"}

Keys == {"none", "ESC", "SPACE", "r", "l"}
\* how the rest of a frame goes after the gesture was handled: an exception
\* or a keyboard interrupt in drawing and display, or the key waitKey returns
FrameTails == {[kind |-> "exception", key |-> "none", fail |-> 0],
               [kind |-> "interrupt", key |-> "none", fail |-> 0]}
              \cup {[kind |-> "key", key |-> k, fail |-> 0] : k \in Keys}
              \cup {[kind |-> "key", key |-> k, fail |-> 1] : k \in {"SPACE", "r"}}

\* ------------------------------------------------------------------------
\* Initial state: the constructors
\* ------------------------------------------------------------------------
InitWith(sensitivities) ==
    /\ sensitivity \in sensitivities
    /\ is_mouse_pressed = FALSE
    /\ last_mouse_pos = <<0, 0>>
    /\ last_click_time = 0
    /\ last_scroll_time = 0
    /\ movement_history = <<>>
    /\ gesture_history = <<>>
    /\ position_history = <<>>
    /\ previous_gesture = "none"
    /\ gesture_start_time = StartTime
    /\ control_enabled = TRUE
    /\ phase = "init"
    /\ exit_cause = "none"
    /\ cleanup_log = <<>>
    /\ now = StartTime
    /\ out = <<>>
    /\ raised = "no"
    /\ unmatched = 0
    /\ click_times = <<>>
    /\ was_pressed = FALSE
    /\ last_data = EmptyData
    /\ last_hand = NoHand
    /\ result = "none"
    /\ fresh = FreshRecognizer(FALSE)
    /\ observed = <<>>
    /\ held = [gesture |-> "none", required_duration |-> 0, returned |-> FALSE]
    /\ demo = DemoInit
    /\ last_op = "init"

\* HandGestureController builds the controller with sensitivity 1.0
Init == InitWith({10})

InitPointer == InitWith(PointerSensitivities)

\* ScreenController(sensitivity=s): the argument is stored as it is given
InitSensitivity == InitWith(ConstructorSensitivities)

ExceptionState(c) == IF c.raised THEN "propagated" ELSE IF c.caught THEN "caught" ELSE "no"

\* the controller's fields and the observations after an operation ended in c
Commit(c, op, data, t) ==
    /\ is_mouse_pressed' = c.is_mouse_pressed
    /\ last_mouse_pos' = c.last_mouse_pos
    /\ last_click_time' = c.last_click_time
    /\ last_scroll_time' = c.last_scroll_time
    /\ movement_history' = c.movement_history
    /\ now' = t
    /\ out' = c.out
    /\ raised' = ExceptionState(c)
    /\ unmatched' = unmatched + Count(c.out, "ButtonDown") - Count(c.out, "ButtonUp")
    /\ click_times' = IF Count(c.out, "Click") > 0
                      THEN DequeAppend(click_times, t, 2) ELSE click_times
    /\ was_pressed' = is_mouse_pressed
    /\ last_data' = data
    /\ last_op' = op
    /\ UNCHANGED <<last_hand, result, fresh, observed, held, demo>>

recvars == <<gesture_history, position_history, previous_gesture, gesture_start_time>>
obsvars == <<last_hand, result, fresh, observed, held, demo>>
mainvars == <<control_enabled, phase, exit_cause, cleanup_log>>

\* ------------------------------------------------------------------------
\* The controller driven directly
\* ------------------------------------------------------------------------
\* one call of execute_gesture_action; it reads the clock once
Dispatch(gesture, data, t, fail) ==
    /\ t >= now
    /\ t <= MaxTime
    /\ \E c \in {execute_gesture_action(Ctx(fail), gesture, data, t)} :
          Commit(c, gesture, data, t)
    /\ UNCHANGED <<sensitivity, recvars, mainvars>>

EmergencyStop(fail) ==
    /\ \E c \in {emergency_stop(Ctx(fail))} : Commit(c, "emergency_stop", EmptyData, now)
    /\ UNCHANGED <<sensitivity, recvars, mainvars>>

SetSensitivity(s) ==
    /\ sensitivity' = set_sensitivity(s)
    /\ UNCHANGED <<is_mouse_pressed, last_mouse_pos, last_click_time,
                   last_scroll_time, movement_history>>
    /\ UNCHANGED <<now, unmatched, click_times, recvars, mainvars>>
    /\ was_pressed' = is_mouse_pressed
    /\ out' = <<>>
    /\ raised' = "no"
    /\ last_data' = EmptyData
    /\ last_op' = "set_sensitivity"
    /\ UNCHANGED obsvars

\* the button view
Next ==
    \/ \E g \in GestureLabels, d \in ButtonData, t \in {now, MaxTime}, f \in FailChoices :
          Dispatch(g, d, t, f)
    \/ \E f \in 0..1 : EmergencyStop(f)
    \/ \E s \in ButtonSensitivities : SetSensitivity(s)

TimingLabels == {"click", "drag", "scroll", "zoom", "none"}

\* the timing view
NextTiming ==
    \/ \E g \in TimingLabels, t \in now..MaxTime, f \in 0..1 :
          Dispatch(g, FullData(Frac(3, 2, 3, 2), 4900), t, f)
    \/ \E f \in 0..1 : EmergencyStop(f)

\* the pointer view
NextPointer ==
    \/ \E g \in GestureLabels, d \in PointerData, f \in 0..1 :
          Dispatch(g, d, now, f)
    \/ \E f \in 0..1 : EmergencyStop(f)

\* ------------------------------------------------------------------------
\* HandGestureController.run
\* ------------------------------------------------------------------------
\* initialize_camera: run returns at once when it fails
InitializeCamera(ok) ==
    /\ phase = "init"
    /\ phase' = IF ok THEN "running" ELSE "returned"
    /\ UNCHANGED <<sensitivity, is_mouse_pressed, last_mouse_pos, last_click_time,
                   last_scroll_time, movement_history, recvars, control_enabled,
                   exit_cause, cleanup_log, now, out, raised, unmatched,
                   click_times, was_pressed, last_data, last_op, obsvars>>

\* the loop ends before the frame is processed: cap.read() returns no frame,
\* or raises, or the user interrupts
FrameNotProcessed(cause) ==
    /\ phase = "running"
    /\ phase' = "cleanup"
    /\ exit_cause' = cause
    /\ out' = <<>>
    /\ raised' = "no"
    /\ last_op' = "no_dispatch"
    /\ last_data' = EmptyData
    /\ was_pressed' = is_mouse_pressed
    /\ UNCHANGED <<sensitivity, is_mouse_pressed, last_mouse_pos, last_click_time,
                   last_scroll_time, movement_history, recvars, control_enabled,
                   cleanup_log, now, unmatched, click_times, obsvars>>

\* _handle_keypress on the context the frame has reached
_handle_keypress(c, key, fail) ==
    IF key = "SPACE" \/ key = "r" THEN emergency_stop(NextOp(c, fail)) ELSE c

\* a faulty gate: a stabilized none is dispatched as well
ExecuteScreenControl_none_too(hand, gesture) ==
    hand.found /\ hand.landmarks /\ control_enabled

\* the conditions under which run calls execute_gesture_action
ExecuteScreenControl(hand, gesture) ==
    hand.found /\ hand.landmarks /\ control_enabled /\ gesture # "none"

\* one iteration of the loop whose frame was read
Frame(hand, t, fail, tail) ==
    /\ phase = "running"
    /\ t >= now
    /\ t <= MaxTime
    /\ \E r \in {recognize_gesture(hand)} :
       LET recognized == hand.found /\ hand.landmarks
           dispatched == ExecuteScreenControl(hand, r.gesture)
       IN
       \E c1 \in {IF dispatched
                   THEN execute_gesture_action(Ctx(fail), r.gesture, r.data, t)
                   ELSE Ctx(fail)} :
       \E c2 \in {IF tail.kind = "key"
                   THEN _handle_keypress(c1, tail.key, tail.fail) ELSE c1} :
       LET ends == tail.kind # "key" \/ tail.key = "ESC" \/ c2.raised
       IN  /\ Commit(c2, IF dispatched THEN r.gesture ELSE "no_dispatch",
                     IF dispatched THEN r.data ELSE EmptyData,
                     IF dispatched THEN t ELSE now)
           /\ gesture_history' =
                 IF tail.kind = "key" /\ tail.key = "r" THEN <<>>
                 ELSE IF recognized THEN r.gesture_history ELSE gesture_history
           /\ position_history' =
                 IF tail.kind = "key" /\ tail.key = "r" THEN <<>>
                 ELSE IF recognized THEN r.position_history ELSE position_history
           /\ previous_gesture' =
                 IF tail.kind = "key" /\ tail.key = "r" THEN "none"
                 ELSE previous_gesture
           /\ UNCHANGED gesture_start_time
           /\ control_enabled' =
                 IF tail.kind = "key" /\ tail.key = "SPACE"
                 THEN ~control_enabled ELSE control_enabled
           /\ phase' = IF ends THEN "cleanup" ELSE "running"
           /\ exit_cause' = IF tail.kind # "key" THEN tail.kind
                            ELSE IF tail.key = "ESC" THEN "esc"
                            ELSE IF c2.raised THEN "exception"
                            ELSE exit_cause
    /\ UNCHANGED <<sensitivity, cleanup_log>>

\* the statements of _cleanup, in the order of the source
CleanupSteps == <<"cap.release", "destroyAllWindows", "emergency_stop">>

\* runs the steps in order until one raises; log: the steps started
RECURSIVE RunCleanup(_, _, _, _)
RunCleanup(steps, c, log, fail_at) ==
    IF steps = <<>> THEN [c |-> c, log |-> log]
    ELSE LET step == Head(steps)
             log1 == Append(log, step)
         IN  IF step = "emergency_stop"
             THEN LET c1 == emergency_stop(c)
                  IN  IF c1.raised THEN [c |-> c1, log |-> log1]
                      ELSE RunCleanup(Tail(steps), c1, log1, fail_at)
             ELSE IF step = fail_at
                  THEN [c |-> [c EXCEPT !.raised = TRUE], log |-> log1]
                  ELSE RunCleanup(Tail(steps), c, log1, fail_at)

\* finally: self._cleanup(); then run() ends
Cleanup(fail_at, fail) ==
    /\ phase = "cleanup"
    /\ \E r \in {RunCleanup(CleanupSteps, Ctx(fail), <<>>, fail_at)} :
          /\ Commit(r.c, "cleanup", EmptyData, now)
          /\ cleanup_log' = r.log
    /\ phase' = "exited"
    /\ UNCHANGED <<sensitivity, recvars, control_enabled, exit_cause>>

NextMain ==
    \/ \E ok \in BOOLEAN : InitializeCamera(ok)
    \/ \E cause \in {"read_failed", "exception", "interrupt"} : FrameNotProcessed(cause)
    \/ \E hand \in MainHands, t \in {now, MaxTime}, f \in 0..1, tail \in FrameTails :
          Frame(hand, t, f, tail)
    \/ \E fail_at \in {"none", "cap.release", "destroyAllWindows"}, f \in 0..1 :
          Cleanup(fail_at, f)

\* the gate view: the loop, and a caller that presses the button
NextGate ==
    \/ InitializeCamera(TRUE)
    \/ \E hand \in GateHands : Frame(hand, now, 0, NoKey)
    \/ Frame(NoHand, now, 0, SpaceKey)
    \/ Dispatch("drag", GateData, now, 0)

\* the pipeline view: the loop from the hand tracker's report to the OS
NextPipeline ==
    \/ \E ok \in BOOLEAN : InitializeCamera(ok)
    \/ \E hand \in PipelineHands, t \in {now, MaxTime}, tail \in PipelineTails :
          Frame(hand, t, 0, tail)

\* _handle_keypress called in any state of the controller: SPACE toggles
\* control_enabled, r resets the recognizer, and both stop the controller
KeyPress(key, fail) ==
    /\ \E c \in {_handle_keypress(Ctx(0), key, fail)} :
          Commit(c, IF key = "SPACE" THEN "key_space"
                    ELSE IF key = "r" THEN "key_r" ELSE "key_other",
                 EmptyData, now)
    /\ control_enabled' = IF key = "SPACE" THEN ~control_enabled ELSE control_enabled
    /\ gesture_history' = IF key = "r" THEN reset_state.gesture_history
                          ELSE gesture_history
    /\ position_history' = IF key = "r" THEN reset_state.position_history
                           ELSE position_history
    /\ previous_gesture' = IF key = "r" THEN reset_state.previous_gesture
                           ELSE previous_gesture
    /\ UNCHANGED gesture_start_time
    /\ UNCHANGED <<sensitivity, phase, exit_cause, cleanup_log>>

\* the scroll view
NextScroll ==
    \/ \E g \in {"pointing", "scroll"}, d \in ScrollData, t \in {now, now + 1},
          f \in 0..1 :
          Dispatch(g, d, t, f)
    \/ \E f \in 0..1 : EmergencyStop(f)

\* the sensitivity view
NextSensitivity ==
    \/ \E d \in SensitivityData : Dispatch("pointing", d, now, 0)
    \/ \E s \in SetterSensitivities : SetSensitivity(s)

\* the shared-timer view
NextSharedTimer ==
    \E g \in {"pointing", "scroll", "zoom"}, d \in SharedTimerData,
       t \in {now, now + 1}, f \in 0..1 :
       Dispatch(g, d, t, f)

\* the zoom view: scroll shares last_scroll_time with zoom
NextZoom ==
    \E g \in {"zoom", "scroll"}, d \in ZoomData, t \in {now, now + 1}, f \in 0..1 :
       Dispatch(g, d, t, f)

\* the stop view: the button view with the keys
NextStop ==
    \/ \E g \in GestureLabels, d \in ButtonData, t \in {now, MaxTime}, f \in FailChoices :
          Dispatch(g, d, t, f)
    \/ \E f \in 0..1 : EmergencyStop(f)
    \/ \E key \in {"SPACE", "r", "l"}, f \in 0..1 : KeyPress(key, f)

\* ------------------------------------------------------------------------
\* The recognizer driven directly
\* ------------------------------------------------------------------------
\* one call of _classify_gesture with the distances recognize_gesture computes
ClassifyGesture(hand) ==
    /\ last_hand' = hand
    /\ result' = _classify_gesture(hand.fingers,
                      _calculate_distance_sq(hand.thumb_tip, hand.index_tip),
                      _calculate_distance_sq(hand.index_tip, hand.middle_tip))
    /\ last_op' = "_classify_gesture"
    /\ UNCHANGED <<sensitivity, is_mouse_pressed, last_mouse_pos, last_click_time,
                   last_scroll_time, movement_history, recvars, mainvars, now, out,
                   raised, unmatched, click_times, was_pressed, last_data, fresh,
                   observed, held, demo>>

\* what recognize_gesture returns to its caller
Returned(r) == [gesture |-> r.gesture, data |-> r.data]

\* one call of recognize_gesture; the second recognizer gets the same call
ObserveStep(hand) ==
    /\ \E r \in {recognize_gesture(hand)} :
          /\ gesture_history' = r.gesture_history
          /\ position_history' = r.position_history
          /\ result' = Returned(r)
    /\ \E f \in {RecognizeGestureOn(hand, fresh.gesture_history, fresh.position_history)} :
          fresh' = [fresh EXCEPT !.gesture_history = f.gesture_history,
                                 !.position_history = f.position_history,
                                 !.result = Returned(f)]
    /\ last_hand' = hand
    /\ last_op' = "recognize_gesture"
    /\ UNCHANGED <<sensitivity, is_mouse_pressed, last_mouse_pos, last_click_time,
                   last_scroll_time, movement_history, mainvars, now, out,
                   raised, unmatched, click_times, was_pressed, last_data,
                   previous_gesture, gesture_start_time, held, demo>>

Observe(hand) == ObserveStep(hand) /\ UNCHANGED observed

\* an observation that is recorded, up to MaxObserved of them
ObserveRecorded(hand) ==
    /\ Len(observed) < MaxObserved
    /\ ObserveStep(hand)
    /\ observed' = IF hand.landmarks THEN Append(observed, hand) ELSE observed

\* one call of reset_state; the second recognizer is constructed anew
ResetState ==
    /\ gesture_history' = reset_state.gesture_history
    /\ position_history' = reset_state.position_history
    /\ previous_gesture' = reset_state.previous_gesture
    /\ fresh' = FreshRecognizer(TRUE)
    /\ observed' = <<>>
    /\ last_op' = "reset_state"
    /\ UNCHANGED <<sensitivity, is_mouse_pressed, last_mouse_pos, last_click_time,
                   last_scroll_time, movement_history, mainvars, now, out,
                   raised, unmatched, click_times, was_pressed, last_data,
                   last_hand, result, gesture_start_time, held, demo>>

\* the recognizer view
NextRecognizer ==
    \/ \E hand \in RecognizerHands : Observe(hand)
    \/ ResetState

\* one call of is_gesture_held; it reads the clock once
IsGestureHeld(gesture, required_duration, t) ==
    /\ t >= now
    /\ t <= MaxTime
    /\ \E r \in {is_gesture_held(gesture, required_duration, t)} :
          /\ previous_gesture' = r.previous_gesture
          /\ gesture_start_time' = r.gesture_start_time
          /\ held' = [gesture |-> gesture, required_duration |-> required_duration,
                      returned |-> r.returned]
    /\ now' = t
    /\ last_op' = "is_gesture_held"
    /\ UNCHANGED <<sensitivity, is_mouse_pressed, last_mouse_pos, last_click_time,
                   last_scroll_time, movement_history, gesture_history,
                   position_history, mainvars, out, raised, unmatched, click_times,
                   was_pressed, last_data, last_hand, result, fresh, observed,
                   demo>>

\* the hold view
NextHeld ==
    \/ \E g \in HeldLabels, d \in HeldDurations, dt \in HeldSteps :
          IsGestureHeld(g, d, now + dt)
    \/ ResetState

\* one frame of the demo loop
DemoFrame(ret, dt, hands, key) ==
    /\ demo.running
    /\ demo.current_time + dt <= MaxDemoTime
    /\ demo' = DemoIteration(demo, ret, demo.current_time + dt, hands, key)
    /\ last_op' = "demo_frame"
    /\ UNCHANGED <<sensitivity, is_mouse_pressed, last_mouse_pos, last_click_time,
                   last_scroll_time, movement_history, recvars, mainvars, now, out,
                   raised, unmatched, click_times, was_pressed, last_data,
                   last_hand, result, fresh, observed, held>>

\* the demo view
NextDemo ==
    \E ret \in BOOLEAN, dt \in DemoSteps, hands \in DemoHands, key \in DemoKeys :
       DemoFrame(ret, dt, hands, key)

\* the window view: every observation is recorded
NextWindow ==
    \/ \E hand \in WindowHands : ObserveRecorded(hand)
    \/ ResetState

\* the classifier view
NextClassify == \E hand \in ClassifyHands : ClassifyGesture(hand)

vars == <<sensitivity, is_mouse_pressed, last_mouse_pos, last_click_time,
          last_scroll_time, movement_history, gesture_history, position_history,
          control_enabled, phase, exit_cause, cleanup_log, now, out, raised,
          unmatched, click_times, was_pressed, last_data, last_op,
          last_hand, result, fresh, observed, held, demo, previous_gesture,
          gesture_start_time>>

Spec == Init /\ [][Next]_vars

SpecTiming == Init /\ [][NextTiming]_vars

SpecClassify == Init /\ [][NextClassify]_vars

SpecRecognizer == Init /\ [][NextRecognizer]_vars

SpecStop == Init /\ [][NextStop]_vars

SpecGate == Init /\ [][NextGate]_vars

SpecPipeline == Init /\ [][NextPipeline]_vars

SpecDemo == Init /\ [][NextDemo]_vars

SpecHeld == Init /\ [][NextHeld]_vars

SpecWindow == Init /\ [][NextWindow]_vars

SpecSensitivity == InitSensitivity /\ [][NextSensitivity]_vars

SpecSharedTimer == Init /\ [][NextSharedTimer]_vars

SpecZoom == Init /\ [][NextZoom]_vars

SpecScroll == Init /\ [][NextScroll]_vars

SpecPointer == InitPointer /\ [][NextPointer]_vars

SpecMain == Init /\ [][NextMain]_vars

\* ------------------------------------------------------------------------
\* Properties
\* ------------------------------------------------------------------------
OtherGestures == GestureLabels \ {"drag", "click"}

\* the commands of kind cmd in the last operation's output
Emitted(cmd) == Count(out, cmd)

\* C1: whenever the dispatched gesture is anything other than drag or click
\* and the button is held, the dispatch releases the button: it emits one
\* ButtonUp and is_mouse_pressed is false afterwards.
C1_ReleasedOnOtherGesture ==
    (last_op \in OtherGestures /\ was_pressed /\ raised = "no")
        => (Emitted("ButtonUp") = 1 /\ ~is_mouse_pressed)

\* ButtonDown only when the button is up and ButtonUp only when it is down,
\* along a command sequence that starts with the button down or up
RECURSIVE Alternates(_, _)
Alternates(s, down) ==
    IF s = <<>> THEN TRUE
    ELSE IF Head(s).cmd = "ButtonDown" THEN ~down /\ Alternates(Tail(s), TRUE)
    ELSE IF Head(s).cmd = "ButtonUp" THEN down /\ Alternates(Tail(s), FALSE)
    ELSE Alternates(Tail(s), down)

\* the number of unmatched ButtonDown before the last operation
UnmatchedBefore == unmatched - Emitted("ButtonDown") + Emitted("ButtonUp")

\* C2: ButtonDown and ButtonUp strictly alternate over the whole command
\* stream, starting with ButtonDown: a drag that finds the button up presses
\* it once, a drag that finds it down does not press it again, and "none"
\* releases a held button once and emits nothing when the button is up.
C2_ButtonAlternation ==
    /\ UnmatchedBefore \in {0, 1}
    /\ unmatched \in {0, 1}
    /\ Alternates(out, UnmatchedBefore = 1)
    /\ (last_op = "drag" /\ last_data.has_position /\ raised = "no")
          => /\ Emitted("ButtonDown") = (IF was_pressed THEN 0 ELSE 1)
             /\ Emitted("ButtonUp") = 0
    /\ (last_op = "none" /\ raised = "no")
          => /\ Emitted("ButtonUp") = (IF was_pressed THEN 1 ELSE 0)
             /\ Emitted("ButtonDown") = 0

\* a held drag has been ended by "none": one ButtonUp closes the one ButtonDown
C2_Witness ==
    /\ last_op = "none"
    /\ was_pressed
    /\ out = <<ButtonUp>>
    /\ unmatched = 0

\* C3: when run() has ended, every release of the camera or of the display
\* during shutdown came after the call of emergency_stop().
C3_StopBeforeRelease ==
    phase = "exited"
        => \A i \in 1..Len(cleanup_log) :
              cleanup_log[i] \in {"cap.release", "destroyAllWindows"}
                 => \E j \in 1..(i - 1) : cleanup_log[j] = "emergency_stop"

\* C4: emergency_stop() is called on every exit of the main loop, also when
\* releasing the camera or the display fails.
C4_StopOnEveryExit ==
    phase = "exited"
        => \E i \in 1..Len(cleanup_log) : cleanup_log[i] = "emergency_stop"

\* C5: is_mouse_pressed is true exactly when the command stream holds an
\* unmatched ButtonDown, and false exactly when it holds none, also after
\* operations in which an OS call failed.
C5_FlagMatchesCommands ==
    /\ is_mouse_pressed <=> unmatched = 1
    /\ ~is_mouse_pressed <=> unmatched = 0

\* an OS call failed while the button was held, and the flag still says so
C5_Witness ==
    /\ raised # "no"
    /\ was_pressed
    /\ is_mouse_pressed
    /\ unmatched = 1

\* a dispatch step in which an OS call raised
FailedDispatch == last_op' \in GestureLabels /\ raised' # "no"

\* C6 as stated: a dispatch in which an OS call fails catches the exception
\* and leaves is_mouse_pressed, last_click_time and last_scroll_time as they
\* were, for every gesture.
C6_FailureLeavesStateUnchanged ==
    [][FailedDispatch =>
          /\ raised' = "caught"
          /\ is_mouse_pressed' = is_mouse_pressed
          /\ last_click_time' = last_click_time
          /\ last_scroll_time' = last_scroll_time]_vars

\* C6: a dispatch in which an OS call fails catches the exception and leaves
\* last_click_time and last_scroll_time as they were; is_mouse_pressed is
\* left as it was too, except in a drag that found the button up and whose
\* ButtonDown succeeded before DragTo failed: there the button is down and
\* is_mouse_pressed is true.
C6_FailureLeavesTimesUnchanged ==
    [][FailedDispatch =>
          /\ raised' = "caught"
          /\ last_click_time' = last_click_time
          /\ last_scroll_time' = last_scroll_time
          /\ \/ is_mouse_pressed' = is_mouse_pressed
             \/ /\ last_op' = "drag"
                /\ ~is_mouse_pressed
                /\ is_mouse_pressed'
                /\ out' = <<ButtonDown>>]_vars

\* a click whose pyautogui.click() raised after an earlier click had set
\* last_click_time: the exception is caught and the time is the earlier one
C6_Witness ==
    /\ last_op = "click"
    /\ raised = "caught"
    /\ out = <<>>
    /\ now = MaxTime
    /\ last_click_time = StartTime

\* C7: two Click commands are at least click_cooldown apart; a click gesture
\* emits at most one Click, and it emits none only within the cooldown of the
\* last Click (or when the OS call fails).
C7_ClickCooldown ==
    /\ Emitted("Click") <= 1
    /\ Len(click_times) = 2 => click_times[2] - click_times[1] >= 3
    /\ (last_op = "click" /\ raised = "no" /\ Emitted("Click") = 0)
          => /\ click_times # <<>>
             /\ now - click_times[Len(click_times)] < 3

\* two click gestures 0.4 s apart have both emitted a Click
C7_Witness ==
    /\ last_op = "click"
    /\ Emitted("Click") = 1
    /\ Len(click_times) = 2
    /\ click_times[2] - click_times[1] = 4

\* two click gestures 0.1 s apart: the second emitted nothing
C7_WitnessSuppressed ==
    /\ last_op = "click"
    /\ raised = "no"
    /\ out = <<>>
    /\ click_times # <<>>
    /\ now - click_times[Len(click_times)] = 1

\* C8: a click gesture dispatched while the button is held emits no Click.
C8_NoClickWhileHeld ==
    (last_op = "click" /\ was_pressed) => Emitted("Click") = 0

\* the square of the distance between two screen positions
DistSq(p, q) == (p[1] - q[1]) * (p[1] - q[1]) + (p[2] - q[2]) * (p[2] - q[2])

\* C9: a pointing dispatch emits MoveTo exactly when the smoothed position is
\* at least 5 px from last_mouse_pos (and the call does not fail);
\* last_mouse_pos becomes the smoothed position exactly when MoveTo is
\* emitted and keeps its value otherwise.
C9_DeadZone ==
    [][(last_op' = "pointing" /\ last_data'.has_position) =>
          LET smooth == _smooth_movement(movement_history')
              far    == DistSq(smooth, last_mouse_pos) >= 5 * 5
          IN  /\ Emitted("MoveTo")' = (IF far /\ raised' = "no" THEN 1 ELSE 0)
              /\ raised' # "no" => far
              /\ IF far /\ raised' = "no"
                 THEN out' = <<MoveTo(smooth)>> /\ last_mouse_pos' = smooth
                 ELSE out' = <<>> /\ last_mouse_pos' = last_mouse_pos]_vars

\* a pointing frame whose smoothed position is exactly 5 px from the last
\* emitted one has moved the pointer
C9_Witness ==
    /\ last_op = "pointing"
    /\ raised = "no"
    /\ Len(movement_history) >= 2
    /\ out = <<MoveTo(last_mouse_pos)>>

\* a pointing frame within the dead zone of an earlier MoveTo emitted nothing
C9_WitnessSuppressed ==
    /\ last_op = "pointing"
    /\ raised = "no"
    /\ out = <<>>
    /\ last_mouse_pos # <<0, 0>>
    /\ DistSq(_smooth_movement(movement_history), last_mouse_pos) \in 1..24

\* every MoveTo and DragTo of the last operation lies on the screen
OutInScreen ==
    \A i \in 1..Len(out) :
       out[i].cmd \in {"MoveTo", "DragTo"}
          => /\ out[i].a \in 0..(screen_width - 1)
             /\ out[i].b \in 0..(screen_height - 1)

\* the screen position a dispatch has computed from the input position:
\* the DragTo target of a drag, the entry a pointing appends to the history
Mapped ==
    IF last_op = "drag" THEN <<out[Len(out)].a, out[Len(out)].b>>
    ELSE movement_history[Len(movement_history)]

MappedDefined ==
    /\ last_data.has_position
    /\ \/ last_op = "drag" /\ out # <<>> /\ out[Len(out)].cmd = "DragTo"
       \/ last_op = "pointing"

ThumbIndexSq == DistSq(last_hand.thumb_tip, last_hand.index_tip)

Extended(f) == f[1] + f[2] + f[3] + f[4] + f[5]

\* the eight rules of the classifier in their priority order; d_sq is the
\* squared thumb-index distance
RuleLabel(f, d_sq) ==
    CASE f = <<0, 1, 0, 0, 0>>                       -> "pointing"
      [] OTHER ->
    CASE f[1] = 1 /\ f[2] = 1 /\ d_sq < 1600         -> "click"
      [] OTHER ->
    CASE f[1] = 1 /\ f[2] = 1 /\ d_sq < 900          -> "drag"
      [] OTHER ->
    CASE f = <<0, 1, 1, 0, 0>>                       -> "scroll"
      [] OTHER ->
    CASE Extended(f) >= 4                            -> "open_palm"
      [] OTHER ->
    CASE f = <<0, 1, 1, 1, 0>>                       -> "zoom"
      [] OTHER ->
    CASE Extended(f) = 0                             -> "fist"
      [] OTHER                                       -> "unknown"

\* C11: for every finger-state vector and every pair of distances,
\* _classify_gesture returns the label of the first matching rule of the
\* eight rules in priority order; it always returns a label, and the
\* recognizer's windows are as they were.
C11_ClassifierRules ==
    last_op = "_classify_gesture"
        => /\ result = RuleLabel(last_hand.fingers, ThumbIndexSq)
           /\ result \in GestureLabels
           /\ gesture_history = <<>>
           /\ position_history = <<>>

\* three fingers with the thumb 41 px away have been classified as zoom
C11_Witness ==
    /\ last_op = "_classify_gesture"
    /\ last_hand.fingers = <<0, 1, 1, 1, 0>>
    /\ ThumbIndexSq = 41 * 41
    /\ result = "zoom"

\* C12: the finger-state vector [0,1,0,0,0] is classified as pointing for
\* every thumb-index and index-middle distance.
C12_PointingWhateverDistance ==
    (last_op = "_classify_gesture" /\ last_hand.fingers = <<0, 1, 0, 0, 0>>)
        => result = "pointing"

\* [0,1,0,0,0] with the thumb tip on the index tip has been classified as pointing
C12_Witness ==
    /\ last_op = "_classify_gesture"
    /\ last_hand.fingers = <<0, 1, 0, 0, 0>>
    /\ ThumbIndexSq = 0
    /\ result = "pointing"

Occurrences(w, g) == Cardinality({i \in 1..Len(w) : w[i] = g})

\* the labels of window w
LabelsOf(w) == {w[i] : i \in 1..Len(w)}

\* the last operation was an observation that reached the stabilizer
Stabilized == last_op = "recognize_gesture" /\ last_hand.landmarks

\* C14: whenever one label holds a strict majority of the window, the
\* stabilized label is that label.
C14_MajorityWins ==
    Stabilized =>
       \A g \in LabelsOf(gesture_history) :
          2 * Occurrences(gesture_history, g) > Len(gesture_history)
             => result.gesture = g

\* the window [click, click, click, scroll, fist] has been stabilized to click
C14_Witness ==
    /\ Stabilized
    /\ gesture_history = <<"click", "click", "click", "scroll", "fist">>
    /\ result.gesture = "click"

\* the highest occurrence count of window w
MaxOccurrences(w) ==
    CHOOSE n \in 0..Len(w) :
       /\ \A g \in LabelsOf(w) : Occurrences(w, g) <= n
       /\ \E g \in LabelsOf(w) : Occurrences(w, g) = n

\* C15: for every non-empty window, the stabilized label is none when the
\* highest occurrence count is below floor(window size / 2), and otherwise a
\* label of the window whose count is the highest.
C15_ConsensusGate ==
    Stabilized =>
       IF MaxOccurrences(gesture_history) < Len(gesture_history) \div 2
       THEN result.gesture = "none"
       ELSE /\ result.gesture \in LabelsOf(gesture_history)
            /\ Occurrences(gesture_history, result.gesture)
                  = MaxOccurrences(gesture_history)

\* a full window of five distinct labels has been stabilized to none
C15_Witness ==
    /\ Stabilized
    /\ Len(gesture_history) = 5
    /\ Cardinality(LabelsOf(gesture_history)) = 5
    /\ result.gesture = "none"

\* C16 as stated: the stabilizer returns none whenever no label holds a
\* strict majority of the window; a label other than none is returned only
\* when it occupies more than half of the window.
C16_StrictMajorityOnly ==
    (Stabilized /\ result.gesture # "none")
        => 2 * Occurrences(gesture_history, result.gesture) > Len(gesture_history)

\* C16: for every window size, a label other than none is returned only when
\* its count is at least floor(window size / 2): at least twice in a window
\* of four or five; in a window of one, two or three labels a label is
\* always returned, also without a strict majority.
C16_FloorHalfOnly ==
    Stabilized =>
       /\ result.gesture # "none"
             => Occurrences(gesture_history, result.gesture)
                   >= Len(gesture_history) \div 2
       /\ (Len(gesture_history) >= 4 /\ result.gesture # "none")
             => Occurrences(gesture_history, result.gesture) >= 2
       /\ Len(gesture_history) <= 3 => result.gesture # "none"

\* a window of five with a label that occurs twice, not a majority, has been
\* stabilized to that label
C16_Witness ==
    /\ Stabilized
    /\ Len(gesture_history) = 5
    /\ result.gesture # "none"
    /\ Occurrences(gesture_history, result.gesture) = 2

\* C17: after reset_state, recognize_gesture returns what a newly constructed
\* recognizer returns for the same observations, and the windows of the two
\* are equal, whatever was observed before the reset.
C17_ResetIsFresh ==
    /\ last_op = "recognize_gesture"
          => /\ result = fresh.result
             /\ gesture_history = fresh.gesture_history
             /\ position_history = fresh.position_history
    /\ last_op = "reset_state"
          => gesture_history = <<>> /\ position_history = <<>>

\* the single observation after a reset: a window of one label and one position
C17_Witness ==
    /\ fresh.after_reset
    /\ Stabilized
    /\ result = fresh.result
    /\ gesture_history = <<"click">>
    /\ result.gesture = "click"
    /\ result.data.position = Frac(320, 640, 240, 480)


\* the operations that call emergency_stop
StopOps == {"emergency_stop", "key_space", "key_r"}

\* the controller's fields other than is_mouse_pressed
OtherFields == <<last_mouse_pos, last_click_time, last_scroll_time,
                 movement_history, sensitivity>>

\* C18: emergency_stop can be called in every state; when it returns,
\* is_mouse_pressed is false and it has issued one ButtonUp if the button was
\* down and nothing otherwise; a second call right after it issues nothing
\* and changes nothing; the SPACE and R keys call it.
C18_EmergencyStopIdempotent ==
    [][/\ (last_op' \in StopOps /\ raised' = "no")
             => /\ ~is_mouse_pressed'
                /\ out' = (IF is_mouse_pressed THEN <<ButtonUp>> ELSE <<>>)
                /\ UNCHANGED OtherFields
       /\ (last_op \in StopOps /\ raised = "no" /\ last_op' = "emergency_stop")
             => /\ out' = <<>>
                /\ raised' = "no"
                /\ ~is_mouse_pressed'
                /\ UNCHANGED OtherFields]_vars

\* the SPACE key has released a held button
C18_Witness ==
    /\ last_op = "key_space"
    /\ was_pressed
    /\ raised = "no"
    /\ out = <<ButtonUp>>
    /\ ~is_mouse_pressed

\* a second emergency_stop in a row has issued nothing
C18_WitnessSecond ==
    /\ last_op = "emergency_stop"
    /\ ~was_pressed
    /\ raised = "no"
    /\ out = <<>>
    /\ unmatched = 0
    /\ now = MaxTime

StopGestures == {"open_palm", "fist", "none", "unknown"}

\* C19: open_palm, fist, none or unknown dispatched while the button is held
\* issues exactly one ButtonUp and clears is_mouse_pressed; dispatched while
\* the button is up it issues no command and changes no field.
C19_StopGestures ==
    [][(last_op' \in StopGestures /\ raised' = "no")
          => /\ out' = (IF is_mouse_pressed THEN <<ButtonUp>> ELSE <<>>)
             /\ ~is_mouse_pressed'
             /\ UNCHANGED OtherFields]_vars

\* a fist has released a held button
C19_Witness ==
    /\ last_op = "fist"
    /\ was_pressed
    /\ raised = "no"
    /\ out = <<ButtonUp>>
    /\ ~is_mouse_pressed

\* an open palm with the button up has issued nothing
C19_WitnessUp ==
    /\ last_op = "open_palm"
    /\ ~was_pressed
    /\ out = <<>>
    /\ ~is_mouse_pressed


\* C20: a scroll dispatch whose cooldown of 0.1 s since last_scroll_time has
\* elapsed and whose vertical delta against the last tracked position is
\* above 0.01 in absolute value issues one Scroll and sets last_scroll_time
\* to the time of the dispatch; otherwise it issues no Scroll.
C20_ScrollOnDelta ==
    [][(/\ last_op' = "scroll"
        /\ last_data'.has_position
        /\ raised' = "no"
        /\ Len(movement_history) >= 2)
          => LET p        == last_data'.position
                 prev_pos == movement_history[Len(movement_history)]
                 \* delta = p.y - prev_pos.y / screen_height, as a fraction
                 num      == p.yn * screen_height - prev_pos[2] * p.yd
                 den      == p.yd * screen_height
                 moved    == 100 * (IF num < 0 THEN -num ELSE num) > den
                 elapsed  == now' - last_scroll_time >= 1
             IN  IF elapsed /\ moved
                 THEN Emitted("Scroll")' = 1 /\ last_scroll_time' = now'
                 ELSE Emitted("Scroll")' = 0]_vars


\* ------------------------------------------------------------------------
\* C21: a zoom dispatch whose OS call does not fail, at least scroll_cooldown
\* after last_scroll_time, emits Hotkey(ctrl,+) alone when the thumb-index
\* distance is above 60, Hotkey(ctrl,-) alone when it is below 30, and no
\* command when it lies in [30, 60]; a zoom dispatch within scroll_cooldown
\* of last_scroll_time emits nothing.
\* ------------------------------------------------------------------------
CooldownElapsed == now' - last_scroll_time >= scroll_cooldown

ZoomExpected ==
    IF ~CooldownElapsed \/ ~last_data'.has_distance THEN <<>>
    ELSE IF last_data'.thumb_index_dist_sq > 60 * 60 THEN <<HotkeyPlus>>
    ELSE IF last_data'.thumb_index_dist_sq < 30 * 30 THEN <<HotkeyMinus>>
    ELSE <<>>

C21_ZoomByDistance ==
    [][(last_op' = "zoom" /\ raised' = "no") => out' = ZoomExpected]_vars

\* a zoom at exactly 60 pixels, cooldown elapsed, has run: nothing emitted
C21_Witness ==
    /\ last_op = "zoom"
    /\ raised = "no"
    /\ last_data.has_distance
    /\ last_data.thumb_index_dist_sq = 60 * 60
    /\ last_scroll_time = now
    /\ now > StartTime
    /\ out = <<>>

\* ------------------------------------------------------------------------
\* C22: recognize_gesture called with an empty landmark list returns the
\* label none with empty data, raises nothing, and leaves the label window
\* and the position window as they were.
\* ------------------------------------------------------------------------
C22_EmptyLandmarksNotRecorded ==
    [][(last_op' = "recognize_gesture" /\ ~last_hand'.landmarks) =>
          /\ result' = [gesture |-> "none", data |-> EmptyData]
          /\ raised' = "no"
          /\ gesture_history' = gesture_history
          /\ position_history' = position_history]_vars

\* a call without landmarks on a recognizer whose windows are full and whose
\* labels would stabilize to something other than none
C22_Witness ==
    /\ last_op = "recognize_gesture"
    /\ ~last_hand.landmarks
    /\ result.gesture = "none"
    /\ Len(gesture_history) = smoothing_frames
    /\ Len(position_history) = smoothing_frames
    /\ _get_stable_gesture(gesture_history) = "click"

\* ------------------------------------------------------------------------
\* C23: in every reachable state of ScreenController the sensitivity lies in
\* [0.1, 3.0], whether it came through the constructor or through
\* set_sensitivity.
\* ------------------------------------------------------------------------
C23_SensitivityInRange == sensitivity \in 1..30

\* the part the code keeps: after set_sensitivity the sensitivity is in range
C23_SetterClamps == last_op = "set_sensitivity" => sensitivity \in 1..30

\* what the claim excludes: a pointer move mapped with a sensitivity of 4.0
C23_MappedOutOfRange ==
    /\ last_op = "pointing"
    /\ out # <<>>
    /\ sensitivity = 40

\* ------------------------------------------------------------------------
\* C24: after any sequence of observations and resets the label window and
\* the position window have the same length, at most smoothing_frames, and
\* hold the raw labels and the index-tip positions of the most recent
\* min(k, smoothing_frames) observations with landmarks, in arrival order,
\* k being the number of such observations since construction or the last
\* reset.
\* ------------------------------------------------------------------------
\* the last n elements of seq
Suffix(seq, n) == SubSeq(seq, Len(seq) - n + 1, Len(seq))

\* the label the classifier gives a hand
RawLabel(hand) ==
    _classify_gesture(hand.fingers,
                      _calculate_distance_sq(hand.thumb_tip, hand.index_tip),
                      _calculate_distance_sq(hand.index_tip, hand.middle_tip))

C24_WindowsHoldMostRecent ==
    LET n == Min2(Len(observed), smoothing_frames)
        recent == Suffix(observed, n)
    IN  /\ Len(gesture_history) = Len(position_history)
        /\ Len(gesture_history) <= smoothing_frames
        /\ gesture_history = [i \in 1..n |-> RawLabel(recent[i])]
        /\ position_history = [i \in 1..n |-> recent[i].index_tip]

\* after a reset, two more observations than the windows hold, the oldest
\* of them with another label and position than the oldest in the windows
C24_Witness ==
    /\ fresh.after_reset
    /\ Len(observed) = smoothing_frames + 2
    /\ Len(gesture_history) = smoothing_frames
    /\ gesture_history[1] # RawLabel(observed[1])
    /\ position_history[1] # observed[1].index_tip

\* ------------------------------------------------------------------------
\* C25: _classify_gesture returns neither drag nor peace for any input, and
\* in the pipeline from the classifier to the dispatcher no raw or
\* dispatched label is drag or peace, no ButtonDown is emitted and
\* is_mouse_pressed is false in every reachable state.
\* ------------------------------------------------------------------------
Unreachable == {"drag", "peace"}

PointerMoved ==
    /\ last_op = "pointing"
    /\ raised = "no"
    /\ Len(out) = 1
    /\ out[1].cmd = "MoveTo"

\* m is the integer part of total / n
IsFloorOfMean(m, total, n) == m * n <= total /\ total < (m + 1) * n

\* m is an integer nearest to total / n
IsNearestToMean(m, total, n) == 2 * Abs(m * n - total) <= n

C26_MeanTruncated ==
    PointerMoved =>
       LET n == Len(movement_history)
       IN  /\ n \in 1..movement_history_maxlen
           /\ \A i \in 1..n : /\ movement_history[i][1] \in 0..(screen_width - 1)
                                /\ movement_history[i][2] \in 0..(screen_height - 1)
           /\ IsFloorOfMean(out[1].a, SumX(movement_history), n)
           /\ IsFloorOfMean(out[1].b, SumY(movement_history), n)

\* the claim as stated: each coordinate is the mean rounded to the nearest
\* integer
C26_MeanRoundedToNearest ==
    PointerMoved =>
       LET n == Len(movement_history)
       IN  /\ n \in 1..movement_history_maxlen
           /\ IsNearestToMean(out[1].a, SumX(movement_history), n)
           /\ IsNearestToMean(out[1].b, SumY(movement_history), n)

\* a full window whose x mean has a fractional part of 2/3
C26_Witness ==
    /\ PointerMoved
    /\ Len(movement_history) = movement_history_maxlen
    /\ SumX(movement_history) % movement_history_maxlen = 2
    /\ movement_history[1] # movement_history[3]

\* ------------------------------------------------------------------------
\* C27: a call of is_gesture_held(g, d) with g other than the previously
\* observed label returns false, restarts the timer and records g; a call
\* with g equal to the previously observed label returns true exactly when
\* the time since the last label change is at least d, and changes neither
\* the timer nor the recorded label.
\* ------------------------------------------------------------------------
C27_HeldSinceChange ==
    [][last_op' = "is_gesture_held" =>
          IF held'.gesture # previous_gesture
          THEN /\ ~held'.returned
               /\ gesture_start_time' = now'
               /\ previous_gesture' = held'.gesture
          ELSE /\ held'.returned <=>
                     (now' - gesture_start_time >= held'.required_duration)
               /\ gesture_start_time' = gesture_start_time
               /\ previous_gesture' = previous_gesture]_vars

\* click has been held for exactly the required 0.2 s
C27_Witness ==
    /\ last_op = "is_gesture_held"
    /\ held = [gesture |-> "click", required_duration |-> 2, returned |-> TRUE]
    /\ previous_gesture = "click"
    /\ now - gesture_start_time = 2

\* ------------------------------------------------------------------------
\* C28: the loop calls the dispatcher only for a frame with a hand, with
\* landmarks, with control enabled and a stabilized gesture other than none;
\* the processing of every other frame emits no OS command, no ButtonUp for
\* a held button either, and leaves the controller as it was.
\* ------------------------------------------------------------------------
\* the labels the loop can dispatch; drag comes from the direct call only
LoopLabels == GestureLabels \ {"drag"}

\* a step of the loop in which no key was handled
FrameWithoutKey == phase = "running" /\ control_enabled' = control_enabled

C28_DispatchGate ==
    [][/\ (FrameWithoutKey /\ last_op' = "no_dispatch")
             => /\ out' = <<>>
                /\ is_mouse_pressed' = is_mouse_pressed
                /\ OtherFields' = OtherFields
       /\ (FrameWithoutKey /\ last_op' \in LoopLabels)
             => /\ control_enabled
                /\ last_op' # "none"
                /\ last_op' = _get_stable_gesture(gesture_history')
                /\ last_data'.has_position
       /\ (FrameWithoutKey /\ last_op' \notin {"drag", "init"}
              /\ gesture_history' # gesture_history)
             => last_op' = IF control_enabled
                              /\ _get_stable_gesture(gesture_history') # "none"
                           THEN _get_stable_gesture(gesture_history')
                           ELSE "no_dispatch"]_vars

\* a frame was not dispatched while the button is held, control is enabled
\* and the window stabilizes to none
C28_Witness ==
    /\ last_op = "no_dispatch"
    /\ is_mouse_pressed
    /\ unmatched = 1
    /\ control_enabled
    /\ Len(gesture_history) = 4
    /\ _get_stable_gesture(gesture_history) = "none"
    /\ out = <<>>

\* ------------------------------------------------------------------------
\* C29: after floor(smoothing_frames / 2) + 1 = 3 consecutive observations
\* with landmarks whose raw label is L the stabilized label is L, whatever
\* the window held before; after one or two observations of L that follow a
\* window full of another label, the stabilized label is still that label.
\* ------------------------------------------------------------------------
ResponseBound == smoothing_frames \div 2 + 1

\* the newest n entries of the window are all g
NewestAre(n, g) ==
    /\ Len(gesture_history) >= n
    /\ \A i \in (Len(gesture_history) - n + 1)..Len(gesture_history) :
          gesture_history[i] = g

\* the window was full of old when the newest n entries, all new, came in
FullThenNew(old, n, new) ==
    /\ Len(gesture_history) = smoothing_frames
    /\ NewestAre(n, new)
    /\ \A i \in 1..(smoothing_frames - n) : gesture_history[i] = old

C29_BoundedResponse ==
    Stabilized =>
       /\ \A g \in GestureLabels : NewestAre(ResponseBound, g) => result.gesture = g
       /\ \A old, new \in GestureLabels :
             \A n \in 1..(ResponseBound - 1) :
                (old # new /\ FullThenNew(old, n, new)) => result.gesture = old

\* the third observation of a label, after two of another in a full window
C29_Witness ==
    /\ Stabilized
    /\ Len(gesture_history) = smoothing_frames
    /\ NewestAre(ResponseBound, "click")
    /\ gesture_history[1] = "pointing"
    /\ gesture_history[2] = "pointing"
    /\ result.gesture = "click"

\* ------------------------------------------------------------------------
\* C30: when the gate passes, the stabilized label is, of the labels with
\* the highest count in the window, the one whose first occurrence is the
\* oldest; a second recognizer given the same observations returns the
\* same label and data.
\* ------------------------------------------------------------------------
\* where label g first occurs in window w
FirstOccurrence(w, g) == CHOOSE i \in 1..Len(w) : w[i] = g /\ \A j \in 1..(i - 1) : w[j] # g

\* the labels with the highest count in window w
TiedLabels(w) == {g \in LabelsOf(w) : Occurrences(w, g) = MaxOccurrences(w)}

C30_OldestTiedLabel ==
    Stabilized =>
       /\ (MaxOccurrences(gesture_history) >= Len(gesture_history) \div 2) =>
             /\ result.gesture \in TiedLabels(gesture_history)
             /\ \A g \in TiedLabels(gesture_history) :
                   FirstOccurrence(gesture_history, result.gesture)
                      <= FirstOccurrence(gesture_history, g)
       /\ fresh.result = result

\* two labels tie with two votes each in a full window, and the younger of
\* them is the newest entry
C30_Witness ==
    /\ Stabilized
    /\ Len(gesture_history) = smoothing_frames
    /\ Cardinality(TiedLabels(gesture_history)) = 2
    /\ MaxOccurrences(gesture_history) = 2
    /\ gesture_history[smoothing_frames] \in TiedLabels(gesture_history)
    /\ gesture_history[smoothing_frames] # result.gesture
    /\ result.gesture # "none"

\* ------------------------------------------------------------------------
\* C31: a click dispatch within click_cooldown of last_click_time emits no
\* command, no MoveTo either, and leaves movement_history, last_mouse_pos,
\* last_click_time, last_scroll_time and is_mouse_pressed as they were;
\* last_click_time changes only in a dispatch that emits a Click, and then
\* to the time of that dispatch.
\* ------------------------------------------------------------------------
C31_RefusedClickDoesNothing ==
    [][/\ (last_op' = "click" /\ now' - last_click_time < click_cooldown)
             => /\ out' = <<>>
                /\ raised' = "no"
                /\ is_mouse_pressed' = is_mouse_pressed
                /\ OtherFields' = OtherFields
       /\ last_click_time' # last_click_time
             => /\ last_op' = "click"
                /\ Count(out', "Click") = 1
                /\ last_click_time' = now']_vars

\* a click was refused whose position a pointing dispatch would have moved
\* the pointer to
C31_Witness ==
    /\ last_op = "click"
    /\ now - last_click_time < click_cooldown
    /\ out = <<>>
    /\ last_data.has_position
    /\ _handle_pointing(Ctx(0), last_data).out # <<>>

\* ------------------------------------------------------------------------
\* C32: a zoom dispatch that passes the cooldown, carries a thumb-index
\* distance and whose OS call does not fail sets last_scroll_time to the
\* time of the dispatch, also when the distance lies in [30, 60] and no
\* hotkey is sent; the timer never runs backwards, and a scroll or zoom
\* dispatch within scroll_cooldown of it emits nothing and leaves it alone.
\* ------------------------------------------------------------------------
C32_SharedTimer ==
    [][/\ (/\ last_op' = "zoom"
           /\ raised' = "no"
           /\ now' - last_scroll_time >= scroll_cooldown
           /\ last_data'.has_distance)
             => last_scroll_time' = now'
       /\ (last_op' \in {"scroll", "zoom"}
              /\ now' - last_scroll_time < scroll_cooldown)
             => out' = <<>> /\ last_scroll_time' = last_scroll_time
       /\ last_scroll_time' >= last_scroll_time
       /\ last_scroll_time' <= now']_vars

\* a zoom at 50 pixels has sent nothing and set the timer, in a state where
\* a scroll would emit Scroll if the timer had not been set
C32_Witness ==
    /\ last_op = "zoom"
    /\ raised = "no"
    /\ last_data.thumb_index_dist_sq = 50 * 50
    /\ out = <<>>
    /\ last_scroll_time = now
    /\ \E d \in SharedTimerData :
          /\ _handle_scroll(Ctx(0), d, now).out = <<>>
          /\ _handle_scroll(Ctx(0), d, now + scroll_cooldown).out # <<>>

\* ------------------------------------------------------------------------
\* C33: a scroll dispatch emits no command and changes no field while
\* movement_history holds fewer than two positions; movement_history changes
\* only in a pointing dispatch or in a click dispatch that passed the
\* cooldown, by one position at most, so no Scroll is emitted before two
\* such dispatches.
\* ------------------------------------------------------------------------
C33_ScrollNeedsTwoPositions ==
    [][/\ (last_op' = "scroll" /\ Len(movement_history) < 2)
             => /\ out' = <<>>
                /\ raised' = "no"
                /\ is_mouse_pressed' = is_mouse_pressed
                /\ OtherFields' = OtherFields
       /\ movement_history' # movement_history
             => /\ last_op' \in {"pointing", "click"}
                /\ last_op' = "click" => now' - last_click_time >= click_cooldown
                /\ Len(movement_history') <= Len(movement_history) + 1
       /\ Count(out', "Scroll") > 0
             => last_op' = "scroll" /\ Len(movement_history) >= 2]_vars

\* a scroll with one position in movement_history has emitted nothing; with
\* that position twice in the history it would emit Scroll
C33_Witness ==
    /\ last_op = "scroll"
    /\ raised = "no"
    /\ out = <<>>
    /\ Len(movement_history) = 1
    /\ _handle_scroll([Ctx(0) EXCEPT !.movement_history = @ \o @],
                      last_data, now).out # <<>>

\* ------------------------------------------------------------------------
\* C34: in the demo loop two activations of the effect, by the seal or by
\* SPACE, are more than cooldown_duration apart and a frame activates at
\* most once; while the cooldown runs the seal is not detected and nothing
\* activates; a seal shown in the first frame after the cooldown re-activates
\* the effect when the frame before it ran during the cooldown.
\* ------------------------------------------------------------------------
\* a step of the loop that got as far as reading the clock
FrameProcessed == demo'.current_time > demo.current_time

\* what holds of every processed frame
CooldownKept ==
    /\ demo'.frame_activations <= 1
    /\ Len(demo'.activations) = 2
          => demo'.activations[2] - demo'.activations[1] > cooldown_duration
    /\ demo'.in_cooldown => ~demo'.seal_detected /\ demo'.frame_activations = 0

\* the seal re-activated the effect in this frame
Reactivated ==
    /\ demo'.seal_detected
    /\ demo'.frame_activations = 1
    /\ demo'.cooldown_time = demo'.current_time + cooldown_duration

C34_ReactivatesAfterCooldownFrame ==
    [][FrameProcessed =>
          /\ CooldownKept
          /\ (demo.in_cooldown /\ ~demo'.in_cooldown /\ demo'.seal_shown)
                => Reactivated]_vars

\* the claim as stated: a seal held from the last frame before the end of
\* a cooldown to the first frame after it re-activates the effect
C34_HeldSealReactivates ==
    [][FrameProcessed =>
          /\ CooldownKept
          /\ (/\ demo.cooldown_time > 0
              /\ demo.current_time <= demo.cooldown_time
              /\ ~demo'.in_cooldown
              /\ demo.seal_shown
              /\ demo'.seal_shown)
                => Reactivated]_vars

\* the seal has activated the effect a second time, 5 s after the first
C34_Witness ==
    /\ demo.seal_detected
    /\ demo.frame_activations = 1
    /\ Len(demo.activations) = 2
    /\ demo.activations[2] = demo.current_time
    /\ demo.activations[2] - demo.activations[1] = cooldown_duration + 10
    /\ demo.cooldown_time = demo.current_time + cooldown_duration

====
